---- MODULE Spec2Model ----
(***************************************************************************)
(* Model of the Klipper configuration parser (class ConfigParser).         *)
(* Text is a sequence of one-character strings; every pattern of the       *)
(* parser is modelled by the matching the JavaScript regular expression    *)
(* engine performs (greedy / lazy quantifiers, multiline anchors, \s       *)
(* matching line breaks).  A JavaScript object is a sequence of            *)
(* <<key, value>> entries in own-property order.                           *)
(***************************************************************************)
EXTENDS Integers, Sequences, FiniteSets

\* ------------------------------------------------------------------------
\* Characters and strings
\* ------------------------------------------------------------------------
NL == "\n"
BS == "\\"

Min(S) == CHOOSE x \in S : \A y \in S : x <= y
Max(S) == CHOOSE x \in S : \A y \in S : x >= y

\* \s of the regular expressions and the white space String.prototype.trim removes
IsWS(c) == c \in {" ", "\t", NL}

\* what "." matches: anything but a line terminator
IsDot(c) == c # NL

Digits == <<"0", "1", "2", "3", "4", "5", "6", "7", "8", "9">>

IsDigit(c) == \E i \in 1..10 : Digits[i] = c

DigitVal(c) == (CHOOSE i \in 1..10 : Digits[i] = c) - 1

IsLetter(c) == c \in {"a","b","c","d","e","f","g","h","i","j","k","l","m",
                      "n","o","p","q","r","s","t","u","v","w","x","y","z",
                      "A","B","C","D","E","F","G","H","I","J","K","L","M",
                      "N","O","P","Q","R","S","T","U","V","W","X","Y","Z"}

Upper == <<"A","B","C","D","E","F","G","H","I","J","K","L","M",
           "N","O","P","Q","R","S","T","U","V","W","X","Y","Z">>
Lower == <<"a","b","c","d","e","f","g","h","i","j","k","l","m",
           "n","o","p","q","r","s","t","u","v","w","x","y","z">>

\* String.prototype.toLowerCase, one character
ToLowerChar(c) == IF \E i \in 1..26 : Upper[i] = c
                  THEN Lower[CHOOSE i \in 1..26 : Upper[i] = c] ELSE c

toLowerCase(s) == [i \in 1..Len(s) |-> ToLowerChar(s[i])]

\* String.prototype.trim
trim(s) == LET idx == {i \in 1..Len(s) : ~IsWS(s[i])}
           IN IF idx = {} THEN <<>> ELSE SubSeq(s, Min(idx), Max(idx))

startsWith(s, p) == Len(p) <= Len(s) /\ SubSeq(s, 1, Len(p)) = p

includesChar(s, c) == \E i \in 1..Len(s) : s[i] = c

\* String.prototype.split on a one-character separator
RECURSIVE split(_, _)
split(s, c) == IF includesChar(s, c)
               THEN LET i == Min({j \in 1..Len(s) : s[j] = c})
                    IN <<SubSeq(s, 1, i - 1)>> \o split(SubSeq(s, i + 1, Len(s)), c)
               ELSE <<s>>

\* Array.prototype.join
RECURSIVE join(_, _)
join(parts, sep) == IF parts = <<>> THEN <<>>
                    ELSE IF Len(parts) = 1 THEN parts[1]
                    ELSE parts[1] \o sep \o join(Tail(parts), sep)

\* ------------------------------------------------------------------------
\* Numbers: Number(string), comparisons and String(number)
\* A finite number is neg * m * 10^e with m not divisible by 10 (0 is m = 0,
\* e = 0, neg = FALSE).  Floating point rounding is not modelled.
\* ------------------------------------------------------------------------
NaN == [k |-> "nan"]
Infinity(neg) == [k |-> "inf", neg |-> neg]

RECURSIVE Pow(_, _)
Pow(b, n) == IF n <= 0 THEN 1 ELSE b * Pow(b, n - 1)

RECURSIVE Normal(_, _, _)
Normal(neg, m, e) == IF m = 0 THEN [k |-> "fin", neg |-> FALSE, m |-> 0, e |-> 0]
                     ELSE IF m % 10 = 0 THEN Normal(neg, m \div 10, e + 1)
                     ELSE [k |-> "fin", neg |-> neg, m |-> m, e |-> e]

AllDigits(s) == \A i \in 1..Len(s) : IsDigit(s[i])

RECURSIVE DigitsVal(_)
DigitsVal(s) == IF s = <<>> THEN 0
                ELSE DigitsVal(SubSeq(s, 1, Len(s) - 1)) * 10 + DigitVal(s[Len(s)])

HexDigits == <<"0","1","2","3","4","5","6","7","8","9","a","b","c","d","e","f">>

IsBaseDigit(c, base) == \E i \in 1..base : HexDigits[i] = ToLowerChar(c)

BaseDigitVal(c) == (CHOOSE i \in 1..16 : HexDigits[i] = ToLowerChar(c)) - 1

RECURSIVE BaseVal(_, _)
BaseVal(s, base) == IF s = <<>> THEN 0
                    ELSE BaseVal(SubSeq(s, 1, Len(s) - 1), base) * base
                         + BaseDigitVal(s[Len(s)])

\* StrUnsignedDecimalLiteral without the sign: digits [. digits] [e [sign] digits]
UnsignedDecimal(s) ==
    LET epos == {i \in 1..Len(s) : s[i] \in {"e", "E"}}
        mant == IF epos = {} THEN s ELSE SubSeq(s, 1, Min(epos) - 1)
        expo == IF epos = {} THEN <<>> ELSE SubSeq(s, Min(epos) + 1, Len(s))
        eneg == expo # <<>> /\ expo[1] = "-"
        edig == IF expo # <<>> /\ expo[1] \in {"+", "-"} THEN Tail(expo) ELSE expo
        dpos == {i \in 1..Len(mant) : mant[i] = "."}
        ip   == IF dpos = {} THEN mant ELSE SubSeq(mant, 1, Min(dpos) - 1)
        fp   == IF dpos = {} THEN <<>> ELSE SubSeq(mant, Min(dpos) + 1, Len(mant))
        ev   == IF epos = {} THEN 0
                ELSE IF eneg THEN 0 - DigitsVal(edig) ELSE DigitsVal(edig)
    IN IF /\ AllDigits(ip) /\ AllDigits(fp) /\ Len(ip) + Len(fp) > 0
          /\ (epos # {} => (edig # <<>> /\ AllDigits(edig)))
       THEN Normal(FALSE, DigitsVal(ip \o fp), ev - Len(fp))
       ELSE NaN

\* Number(value) for a string value
Number(value) ==
    LET t == trim(value)
        signed == t # <<>> /\ t[1] \in {"+", "-"}
        body == IF signed THEN Tail(t) ELSE t
        neg == signed /\ t[1] = "-"
        radix == IF Len(t) > 2 /\ t[1] = "0"
                 THEN (IF t[2] \in {"x", "X"} THEN 16
                       ELSE IF t[2] \in {"o", "O"} THEN 8
                       ELSE IF t[2] \in {"b", "B"} THEN 2 ELSE 0)
                 ELSE 0
        inf == <<"I","n","f","i","n","i","t","y">>
    IN IF t = <<>> THEN Normal(FALSE, 0, 0)
       ELSE IF radix # 0
       THEN (IF \A i \in 3..Len(t) : IsBaseDigit(t[i], radix)
             THEN Normal(FALSE, BaseVal(SubSeq(t, 3, Len(t)), radix), 0) ELSE NaN)
       ELSE IF body = inf THEN Infinity(neg)
       ELSE LET u == UnsignedDecimal(body)
            IN IF u.k = "nan" THEN NaN ELSE Normal(neg, u.m, u.e)

isNaN(n) == n.k = "nan"
isFinite(n) == n.k = "fin"

\* a comparison that lets zero pass
LeqZeroStrict(n) == IF n.k = "inf" THEN n.neg ELSE n.neg /\ n.m # 0

\* n <= 0, n < 0 and n > c for a number n that is not NaN and an integer c >= 0
LeqZero(n) == IF n.k = "inf" THEN n.neg ELSE n.neg \/ n.m = 0
LtZero(n) == IF n.k = "inf" THEN n.neg ELSE n.neg /\ n.m # 0
GtInt(n, c) == IF n.k = "inf" THEN ~n.neg
               ELSE /\ ~n.neg
                    /\ IF n.e >= 0 THEN n.m * Pow(10, n.e) > c
                       ELSE n.m > c * Pow(10, 0 - n.e)

RECURSIVE NatToString(_)
NatToString(m) == IF m < 10 THEN <<Digits[m + 1]>>
                  ELSE NatToString(m \div 10) \o <<Digits[(m % 10) + 1]>>

Zeros(n) == [i \in 1..n |-> "0"]

\* Number::toString(x), radix 10
NumberToString(x) ==
    IF x.k = "nan" THEN <<"N","a","N">>
    ELSE IF x.k = "inf"
    THEN (IF x.neg THEN <<"-">> ELSE <<>>) \o <<"I","n","f","i","n","i","t","y">>
    ELSE IF x.m = 0 THEN <<"0">>
    ELSE LET d == NatToString(x.m)
             k == Len(d)
             n == k + x.e
             sign == IF x.neg THEN <<"-">> ELSE <<>>
             ex == n - 1
             exs == (IF ex < 0 THEN <<"-">> ELSE <<"+">>)
                    \o NatToString(IF ex < 0 THEN 0 - ex ELSE ex)
         IN sign \o
            (IF k <= n /\ n <= 21 THEN d \o Zeros(n - k)
             ELSE IF 0 < n /\ n <= 21
             THEN SubSeq(d, 1, n) \o <<".">> \o SubSeq(d, n + 1, k)
             ELSE IF -6 < n /\ n <= 0 THEN <<"0", ".">> \o Zeros(0 - n) \o d
             ELSE IF k = 1 THEN d \o <<"e">> \o exs
             ELSE <<d[1], ".">> \o Tail(d) \o <<"e">> \o exs)

\* ------------------------------------------------------------------------
\* JavaScript objects: own string keys in property order (array-index keys
\* first, ascending; then the other keys in order of first insertion)
\* ------------------------------------------------------------------------
\* a < b for canonical decimal numerals (no leading zero)
NumeralLess(a, b) ==
    \/ Len(a) < Len(b)
    \/ /\ Len(a) = Len(b)
       /\ \E i \in 1..Len(a) : /\ DigitVal(a[i]) < DigitVal(b[i])
                               /\ \A j \in 1..(i - 1) : a[j] = b[j]

\* 2^32 - 2, the largest array index
MaxArrayIndexNumeral == <<"4","2","9","4","9","6","7","2","9","4">>

\* a canonical numeric string below 2^32 - 1
IsArrayIndex(key) == /\ key # <<>>
                     /\ AllDigits(key)
                     /\ (key[1] = "0" => Len(key) = 1)
                     /\ ~NumeralLess(MaxArrayIndexNumeral, key)

ObjHas(o, key) == \E i \in 1..Len(o) : o[i].k = key

ObjGet(o, key) == o[CHOOSE i \in 1..Len(o) : o[i].k = key].v

ObjKeys(o) == [i \in 1..Len(o) |-> o[i].k]

\* the key whose assignment goes to the setter of Object.prototype: it sets
\* the prototype of the object (or does nothing) and adds no own property
ProtoKey == <<"_","_","p","r","o","t","o","_","_">>

\* o[key] = val
ObjSet(o, key, val) ==
    IF key = ProtoKey THEN o
    ELSE IF ObjHas(o, key)
    THEN [i \in 1..Len(o) |-> IF o[i].k = key THEN [k |-> key, v |-> val] ELSE o[i]]
    ELSE IF IsArrayIndex(key)
    THEN LET p == Cardinality({i \in 1..Len(o) :
                      IsArrayIndex(o[i].k) /\ NumeralLess(o[i].k, key)})
         IN SubSeq(o, 1, p) \o <<[k |-> key, v |-> val]>> \o SubSeq(o, p + 1, Len(o))
    ELSE Append(o, [k |-> key, v |-> val])

\* { ...o }: a fresh object with the own properties of o, set in order
RECURSIVE SpreadInto(_, _)
SpreadInto(acc, o) == IF o = <<>> THEN acc
                      ELSE SpreadInto(ObjSet(acc, o[1].k, o[1].v), Tail(o))

Spread(o) == SpreadInto(<<>>, o)

\* ------------------------------------------------------------------------
\* Values
\* ------------------------------------------------------------------------
BoolV(b) == [t |-> "bool", b |-> b]
NumV(n) == [t |-> "num", n |-> n]
StrV(s) == [t |-> "str", s |-> s]
ListV(l) == [t |-> "list", l |-> l]

\* an inference that leaves the elements of a list as the text of their segments
parseValueRaw(value) ==
    IF value = <<>> THEN StrV(<<>>)
    ELSE IF toLowerCase(value) = <<"t","r","u","e">> THEN BoolV(TRUE)
    ELSE IF toLowerCase(value) = <<"f","a","l","s","e">> THEN BoolV(FALSE)
    ELSE IF ~isNaN(Number(value)) /\ isFinite(Number(value)) THEN NumV(Number(value))
    ELSE IF includesChar(value, ",")
    THEN LET parts == split(value, ",")
         IN ListV([i \in 1..Len(parts) |-> StrV(trim(parts[i]))])
    ELSE StrV(value)

RECURSIVE parseValue(_)
parseValue(value) ==
    IF value = <<>> THEN StrV(<<>>)
    ELSE IF toLowerCase(value) = <<"t","r","u","e">> THEN BoolV(TRUE)
    ELSE IF toLowerCase(value) = <<"f","a","l","s","e">> THEN BoolV(FALSE)
    ELSE IF ~isNaN(Number(value)) /\ isFinite(Number(value)) THEN NumV(Number(value))
    ELSE IF includesChar(value, ",")
    THEN LET parts == split(value, ",")
         IN ListV([i \in 1..Len(parts) |-> parseValue(trim(parts[i]))])
    ELSE StrV(value)

\* String(v) for a value that is not a list
JsString(v) == IF v.t = "bool"
               THEN (IF v.b THEN <<"t","r","u","e">> ELSE <<"f","a","l","s","e">>)
               ELSE IF v.t = "num" THEN NumberToString(v.n)
               ELSE v.s

\* value.join(', ') for a list, `${value}` otherwise
FormatValue(v) == IF v.t = "list"
                  THEN join([i \in 1..Len(v.l) |-> JsString(v.l[i])], <<",", " ">>)
                  ELSE JsString(v)

\* ------------------------------------------------------------------------
\* Validators
\* ------------------------------------------------------------------------
Null == [isNull |-> TRUE, s |-> <<>>]
Str(s) == [isNull |-> FALSE, s |-> s]

\* truthiness of a string-or-null
Truthy(x) == ~x.isNull /\ x.s # <<>>

validPrefixes ==
    << <<"s","t","e","p","p","e","r","_">>,
       <<"e","x","t","r","u","d","e","r">>,
       <<"h","e","a","t","e","r","_">>,
       <<"f","a","n">>,
       <<"o","u","t","p","u","t","_","p","i","n">>,
       <<"g","c","o","d","e","_","m","a","c","r","o">>,
       <<"t","e","m","p","e","r","a","t","u","r","e","_","s","e","n","s","o","r">>,
       <<"f","i","l","a","m","e","n","t","_","s","w","i","t","c","h","_","s","e","n","s","o","r">>,
       <<"b","e","d","_","m","e","s","h">>,
       <<"s","a","f","e","_","z","_","h","o","m","e">>,
       <<"z","_","t","i","l","t">>,
       <<"q","u","a","d","_","g","a","n","t","r","y","_","l","e","v","e","l">>,
       <<"s","c","r","e","w","s","_","t","i","l","t","_","a","d","j","u","s","t">>,
       <<"b","e","d","_","s","c","r","e","w","s">>,
       <<"d","i","s","p","l","a","y">>,
       <<"m","e","n","u">>,
       <<"d","e","l","a","y","e","d","_","g","c","o","d","e">>,
       <<"s","a","v","e","_","v","a","r","i","a","b","l","e","s">>,
       <<"i","d","l","e","_","t","i","m","e","o","u","t">>,
       <<"r","e","s","p","o","n","d">>,
       <<"p","a","u","s","e","_","r","e","s","u","m","e">>,
       <<"f","i","r","m","w","a","r","e","_","r","e","t","r","a","c","t","i","o","n">>,
       <<"g","c","o","d","e","_","a","r","c","s">>,
       <<"e","x","c","l","u","d","e","_","o","b","j","e","c","t">>,
       <<"v","i","r","t","u","a","l","_","s","d","c","a","r","d">>,
       <<"d","u","p","l","i","c","a","t","e","_","p","i","n","_","o","v","e","r","r","i","d","e">> >>

isValidMultiWordSection(sectionName) ==
    \E i \in 1..Len(validPrefixes) : startsWith(sectionName, validPrefixes[i])

\* the message, or Null
validateSectionName(sectionName) ==
    IF sectionName = <<>> \/ trim(sectionName) = <<>>
    THEN [isNull |-> FALSE, msg |-> "Empty section name", key |-> <<>>, arg |-> <<>>]
    ELSE IF includesChar(sectionName, " ") /\ ~isValidMultiWordSection(sectionName)
    THEN [isNull |-> FALSE, msg |-> "Invalid section name", key |-> <<>>, arg |-> sectionName]
    ELSE [isNull |-> TRUE]

\* a pattern that asks only for a digit at the end
PinMatchLoose(value) == value # <<>> /\ IsDigit(value[Len(value)])

\* /^!?[A-Za-z]+\d+$/
PinMatch(value) ==
    LET w == IF value # <<>> /\ value[1] = "!" THEN Tail(value) ELSE value
    IN \E i \in 1..(Len(w) - 1) : /\ \A j \in 1..i : IsLetter(w[j])
                                  /\ \A j \in (i + 1)..Len(w) : IsDigit(w[j])

stepper_x == <<"s","t","e","p","p","e","r","_","x">>
stepper_y == <<"s","t","e","p","p","e","r","_","y">>
stepper_z == <<"s","t","e","p","p","e","r","_","z">>
extruder == <<"e","x","t","r","u","d","e","r">>
step_pin == <<"s","t","e","p","_","p","i","n">>
dir_pin == <<"d","i","r","_","p","i","n">>
enable_pin == <<"e","n","a","b","l","e","_","p","i","n">>
rotation_distance == <<"r","o","t","a","t","i","o","n","_","d","i","s","t","a","n","c","e">>
nozzle_diameter == <<"n","o","z","z","l","e","_","d","i","a","m","e","t","e","r">>
max_temp == <<"m","a","x","_","t","e","m","p">>

MaxTempLimit == 500

\* a rule check that takes every section whose name begins with extruder
validateParameterPrefix(section, key, value) ==
    LET num == Number(value)
        err(m) == [isNull |-> FALSE, msg |-> m, key |-> key, arg |-> value]
    IN IF /\ section \in {stepper_x, stepper_y, stepper_z}
          /\ key \in {step_pin, dir_pin, enable_pin}
          /\ ~PinMatch(value)
       THEN err("Invalid pin format")
       ELSE IF /\ section \in {stepper_x, stepper_y, stepper_z}
               /\ key = rotation_distance
               /\ (isNaN(num) \/ LeqZero(num))
       THEN err("Invalid rotation_distance")
       ELSE IF /\ startsWith(section, extruder)
               /\ key = nozzle_diameter
               /\ (isNaN(num) \/ LeqZero(num))
       THEN err("Invalid nozzle_diameter")
       ELSE IF /\ startsWith(section, extruder)
               /\ key = max_temp
               /\ (isNaN(num) \/ LtZero(num) \/ GtInt(num, MaxTempLimit))
       THEN err("Invalid max_temp")
       ELSE [isNull |-> TRUE]

\* the message, or Null
validateParameter(section, key, value) ==
    LET num == Number(value)
        err(m) == [isNull |-> FALSE, msg |-> m, key |-> key, arg |-> value]
    IN IF /\ section \in {stepper_x, stepper_y, stepper_z}
          /\ key \in {step_pin, dir_pin, enable_pin}
          /\ ~PinMatch(value)
       THEN err("Invalid pin format")
       ELSE IF /\ section \in {stepper_x, stepper_y, stepper_z}
               /\ key = rotation_distance
               /\ (isNaN(num) \/ LeqZero(num))
       THEN err("Invalid rotation_distance")
       ELSE IF /\ section = extruder
               /\ key = nozzle_diameter
               /\ (isNaN(num) \/ LeqZero(num))
       THEN err("Invalid nozzle_diameter")
       ELSE IF /\ section = extruder
               /\ key = max_temp
               /\ (isNaN(num) \/ LtZero(num) \/ GtInt(num, MaxTempLimit))
       THEN err("Invalid max_temp")
       ELSE [isNull |-> TRUE]

\* ------------------------------------------------------------------------
\* Line patterns of parseKlipperConfig (a line holds no line break)
\* ------------------------------------------------------------------------
\* COMMENT_PATTERN /^\s*#/
IsComment(line) == \E i \in 1..Len(line) : /\ line[i] = "#"
                                           /\ \A j \in 1..(i - 1) : IsWS(line[j])

IsBlank(line) == trim(line) = <<>>

\* CONTINUATION_PATTERN /\\\s*$/ : the last non-blank character is a backslash
HasContinuation(line) == LET idx == {i \in 1..Len(line) : ~IsWS(line[i])}
                         IN idx # {} /\ line[Max(idx)] = BS

\* a replacement that also drops the white space before the backslash
StripContinuationTrim(line) ==
    LET idx == {i \in 1..Len(line) : ~IsWS(line[i])}
        kept == {i \in idx : i < Max(idx)}
    IN IF kept = {} THEN <<>> ELSE SubSeq(line, 1, Max(kept))

\* line.replace(CONTINUATION_PATTERN, '')
StripContinuation(line) == LET idx == {i \in 1..Len(line) : ~IsWS(line[i])}
                           IN SubSeq(line, 1, Max(idx) - 1)

\* lines[lineNumber]?.trim() || '' : the element after the current line
NextLineTrimmed(lines, lineNumber) ==
    IF lineNumber + 1 <= Len(lines) THEN trim(lines[lineNumber + 1]) ELSE <<>>

\* the logical line of the iteration (lines 243-246)
LogicalLine(lines, lineNumber) ==
    LET rawLine == lines[lineNumber]
    IN IF HasContinuation(rawLine) /\ lineNumber < Len(lines)
       THEN StripContinuation(rawLine) \o <<" ">> \o NextLineTrimmed(lines, lineNumber)
       ELSE rawLine

\* an iteration that leaves the following line in place
ConsumeNextKeep(lines, lineNumber) == lines

\* the lines array after the iteration (line 247)
ConsumeNext(lines, lineNumber) ==
    IF HasContinuation(lines[lineNumber]) /\ lineNumber < Len(lines)
    THEN [lines EXCEPT ![lineNumber + 1] = <<>>]
    ELSE lines

\* /^\[([^\]]+)\]\s*$/ : index of the closing bracket, 0 when no match
SectionClose(line) ==
    LET cl == {i \in 1..Len(line) : line[i] = "]"}
    IN IF /\ Len(line) >= 3 /\ line[1] = "[" /\ cl # {} /\ Min(cl) >= 3
          /\ \A j \in (Min(cl) + 1)..Len(line) : IsWS(line[j])
       THEN Min(cl) ELSE 0

IsSectionLine(line) == SectionClose(line) # 0

\* sectionMatch[1]?.trim() || null
SectionNameOf(line) == LET name == trim(SubSeq(line, 2, SectionClose(line) - 1))
                       IN IF name = <<>> THEN Null ELSE Str(name)

\* /^([^:=]+)[:=]\s*(.*)$/ : index of the separator, 0 when no match
KeyValueSep(line) ==
    LET sp == {i \in 1..Len(line) : line[i] \in {":", "="}}
    IN IF sp # {} /\ Min(sp) >= 2 THEN Min(sp) ELSE 0

KeyOf(line) == trim(SubSeq(line, 1, KeyValueSep(line) - 1))

ValueOf(line) == trim(SubSeq(line, KeyValueSep(line) + 1, Len(line)))

\* if (currentSection) config[currentSection] = { ...currentSectionData }
CommitSection(config, currentSection, currentSectionData) ==
    IF Truthy(currentSection)
    THEN ObjSet(config, currentSection.s, Spread(currentSectionData))
    ELSE config

Error(lineNumber, m) == [line |-> lineNumber, msg |-> m.msg, key |-> m.key, arg |-> m.arg]

SyntaxError(lineNumber, msg, line) ==
    [line |-> lineNumber, msg |-> msg, key |-> <<>>, arg |-> trim(line)]

\* errors.push(...) under a condition
PushIf(errors, cond, e) == IF cond THEN Append(errors, e) ELSE errors

\* ------------------------------------------------------------------------
\* One iteration of the loop of parseKlipperConfig, on the scanner state
\* st = [lines, lineNumber, config, currentSection, currentSectionData, errors]
\* where st.lineNumber is the number of lines already visited
\* ------------------------------------------------------------------------
\* a header branch that leaves the section closed when its name fails validation
HeaderBranchReject(st, ln, line, validateSyntax) ==
    LET name == SectionNameOf(line)
        verr == IF Truthy(name) THEN validateSectionName(name.s) ELSE [isNull |-> TRUE]
        bad == validateSyntax /\ Truthy(name) /\ ~verr.isNull
    IN [st EXCEPT !.config = CommitSection(st.config, st.currentSection,
                                           st.currentSectionData),
                  !.currentSection = IF bad THEN Null ELSE name,
                  !.currentSectionData = <<>>,
                  !.errors = PushIf(st.errors, bad,
                                    IF verr.isNull THEN verr ELSE Error(ln, verr))]

\* a header branch that enters the new section into the document at once,
\* under the trimmed bracket content
HeaderBranchEager(st, ln, line, validateSyntax) ==
    LET raw == trim(SubSeq(line, 2, SectionClose(line) - 1))
        name == SectionNameOf(line)
        verr == IF Truthy(name) THEN validateSectionName(name.s) ELSE [isNull |-> TRUE]
    IN [st EXCEPT !.config = ObjSet(CommitSection(st.config, st.currentSection,
                                                  st.currentSectionData), raw, <<>>),
                  !.currentSection = name,
                  !.currentSectionData = <<>>,
                  !.errors = PushIf(st.errors,
                                    validateSyntax /\ Truthy(name) /\ ~verr.isNull,
                                    IF verr.isNull THEN verr ELSE Error(ln, verr))]

\* section header branch (lines 251-266)
HeaderBranch(st, ln, line, validateSyntax) ==
    LET name == SectionNameOf(line)
        verr == IF Truthy(name) THEN validateSectionName(name.s) ELSE [isNull |-> TRUE]
    IN [st EXCEPT !.config = CommitSection(st.config, st.currentSection,
                                           st.currentSectionData),
                  !.currentSection = name,
                  !.currentSectionData = <<>>,
                  !.errors = PushIf(st.errors,
                                    validateSyntax /\ Truthy(name) /\ ~verr.isNull,
                                    IF verr.isNull THEN verr ELSE Error(ln, verr))]

\* no open section (lines 268-273)
OutsideBranch(st, ln, line, validateSyntax) ==
    [st EXCEPT !.errors = PushIf(st.errors, validateSyntax /\ trim(line) # <<>>,
                   SyntaxError(ln, "Configuration outside of section", line))]

\* a content branch that stores a value only when its rule check passes
ContentBranchStrict(st, ln, line, validateSyntax) ==
    IF KeyValueSep(line) # 0
    THEN LET key == KeyOf(line)
             value == ValueOf(line)
             perr == validateParameter(st.currentSection.s, key, value)
             bad == validateSyntax /\ ~perr.isNull
         IN IF key # <<>>
            THEN [st EXCEPT !.currentSectionData =
                                IF bad THEN @ ELSE ObjSet(@, key, parseValue(value)),
                            !.errors = PushIf(st.errors, bad,
                                              IF perr.isNull THEN perr ELSE Error(ln, perr))]
            ELSE [st EXCEPT !.errors = PushIf(st.errors, validateSyntax,
                                SyntaxError(ln, "Invalid key-value pair", line))]
    ELSE [st EXCEPT !.errors = PushIf(st.errors, validateSyntax /\ trim(line) # <<>>,
                        SyntaxError(ln, "Invalid syntax", line))]

\* key/value and unparseable lines (lines 275-294)
ContentBranch(st, ln, line, validateSyntax) ==
    IF KeyValueSep(line) # 0
    THEN LET key == KeyOf(line)
             value == ValueOf(line)
             perr == validateParameter(st.currentSection.s, key, value)
         IN IF key # <<>>
            THEN [st EXCEPT !.currentSectionData = ObjSet(st.currentSectionData, key,
                                                         parseValue(value)),
                            !.errors = PushIf(st.errors, validateSyntax /\ ~perr.isNull,
                                              IF perr.isNull THEN perr ELSE Error(ln, perr))]
            ELSE [st EXCEPT !.errors = PushIf(st.errors, validateSyntax,
                                SyntaxError(ln, "Invalid key-value pair", line))]
    ELSE [st EXCEPT !.errors = PushIf(st.errors, validateSyntax /\ trim(line) # <<>>,
                        SyntaxError(ln, "Invalid syntax", line))]

\* an iteration that merges and consumes before it looks for a comment
ScanLineMergeFirst(st, validateSyntax) ==
    LET ln == st.lineNumber + 1
        rawLine == st.lines[ln]
        line == LogicalLine(st.lines, ln)
        s1 == [st EXCEPT !.lineNumber = ln]
        s2 == [s1 EXCEPT !.lines = ConsumeNext(st.lines, ln)]
    IN IF IsComment(rawLine) \/ IsBlank(rawLine) THEN s2
       ELSE IF IsSectionLine(line) THEN HeaderBranch(s2, ln, line, validateSyntax)
       ELSE IF ~Truthy(st.currentSection) THEN OutsideBranch(s2, ln, line, validateSyntax)
       ELSE ContentBranch(s2, ln, line, validateSyntax)

ScanLine(st, validateSyntax) ==
    LET ln == st.lineNumber + 1
        rawLine == st.lines[ln]
        line == LogicalLine(st.lines, ln)
        s1 == [st EXCEPT !.lineNumber = ln]
        s2 == [s1 EXCEPT !.lines = ConsumeNext(st.lines, ln)]
    IN IF IsComment(rawLine) \/ IsBlank(rawLine) THEN s1
       ELSE IF IsSectionLine(line) THEN HeaderBranch(s2, ln, line, validateSyntax)
       ELSE IF ~Truthy(st.currentSection) THEN OutsideBranch(s2, ln, line, validateSyntax)
       ELSE ContentBranch(s2, ln, line, validateSyntax)

ScanStart(content, errors) ==
    [lines |-> split(content, NL), lineNumber |-> 0, config |-> <<>>,
     currentSection |-> Null, currentSectionData |-> <<>>, errors |-> errors]

RECURSIVE ScanAll(_, _)
ScanAll(st, validateSyntax) ==
    IF st.lineNumber < Len(st.lines) THEN ScanAll(ScanLine(st, validateSyntax), validateSyntax)
    ELSE st

\* the final commit and the returned document (lines 297-301)
FinalConfig(st) == CommitSection(st.config, st.currentSection, st.currentSectionData)

\* ------------------------------------------------------------------------
\* extractIncludes: INCLUDE_PATTERN /^\[include\s+(.+?)\]\s*$/gm
\* Positions are 1-based; a match is [from, to, path] with to the position
\* after its last character.
\* ------------------------------------------------------------------------
IncludeWord == <<"[","i","n","c","l","u","d","e">>

\* number of consecutive \s characters from position p
WsRun(text, p) == LET non == {i \in p..Len(text) : ~IsWS(text[i])}
                  IN IF non = {} THEN Len(text) - p + 1 ELSE Min(non) - p

\* ^ and $ under the m flag
LineStart(text, i) == i = 1 \/ text[i - 1] = NL
LineEnd(text, i) == i = Len(text) + 1 \/ text[i] = NL

\* the \s* $ tail after the closing bracket: the greedy choice that reaches a line end
TailEnds(text, r) == {r + t : t \in {u \in 0..WsRun(text, r) : LineEnd(text, r + u)}}

\* (.+?)\]\s*$ from position q with a path of len characters
PathOK(text, q, len) == /\ q + len <= Len(text)
                        /\ \A j \in q..(q + len - 1) : IsDot(text[j])
                        /\ text[q + len] = "]"
                        /\ TailEnds(text, q + len + 1) # {}

\* the match starting at position s chosen by the backtracking order:
\* \s+ greedy, (.+?) lazy, \s* greedy
IncludeMatchAt(text, s) ==
    LET p == s + Len(IncludeWord)
        ns == {n \in 1..WsRun(text, p) : \E len \in 1..Len(text) : PathOK(text, p + n, len)}
        n == Max(ns)
        len == Min({l \in 1..Len(text) : PathOK(text, p + n, l)})
    IN IF /\ LineStart(text, s)
          /\ p - 1 <= Len(text)
          /\ SubSeq(text, s, p - 1) = IncludeWord
          /\ ns # {}
       THEN [ok |-> TRUE, from |-> s, to |-> Max(TailEnds(text, p + n + len + 1)),
             path |-> SubSeq(text, p + n, p + n + len - 1)]
       ELSE [ok |-> FALSE]

\* INCLUDE_PATTERN.exec(content) with lastIndex = from - 1: the leftmost match
IncludeExec(text, from) ==
    LET starts == {s \in from..Len(text) : IncludeMatchAt(text, s).ok}
    IN IF starts = {} THEN [ok |-> FALSE] ELSE IncludeMatchAt(text, Min(starts))

\* all matches of the global pattern, scanning from position from
RECURSIVE IncludeMatches(_, _)
IncludeMatches(text, from) ==
    LET m == IncludeExec(text, from)
    IN IF m.ok THEN <<m>> \o IncludeMatches(text, m.to) ELSE <<>>

\* while ((match = exec) !== null) { if (match[1].trim()) includes.push(...) }
RECURSIVE CollectIncludes(_)
CollectIncludes(ms) ==
    IF ms = <<>> THEN <<>>
    ELSE (IF trim(ms[1].path) # <<>> THEN <<trim(ms[1].path)>> ELSE <<>>)
         \o CollectIncludes(Tail(ms))

\* content.replace(INCLUDE_PATTERN, '')
RECURSIVE RemoveMatches(_, _, _)
RemoveMatches(text, from, ms) ==
    IF ms = <<>> THEN SubSeq(text, from, Len(text))
    ELSE SubSeq(text, from, ms[1].from - 1) \o RemoveMatches(text, ms[1].to, Tail(ms))

\* an include scan that starts where the pattern's cursor was left
extractIncludesNoReset(content, lastIndex) ==
    LET start == lastIndex
        ms == IncludeMatches(content, start + 1)
    IN [cleanedContent |-> RemoveMatches(content, 1, IncludeMatches(content, 1)),
        extractedIncludes |-> CollectIncludes(ms)]

\* lastIndex is the value INCLUDE_PATTERN.lastIndex has on entry; line 215 sets it to 0
extractIncludes(content, lastIndex) ==
    LET start == 0
        ms == IncludeMatches(content, start + 1)
    IN [cleanedContent |-> RemoveMatches(content, 1, IncludeMatches(content, 1)),
        extractedIncludes |-> CollectIncludes(ms)]

\* ------------------------------------------------------------------------
\* formatConfig and the whole of parseConfig as a function
\* ------------------------------------------------------------------------
RECURSIVE FormatIncludes(_)
FormatIncludes(includes) ==
    IF includes = <<>> THEN <<>>
    ELSE IncludeWord \o <<" ">> \o includes[1] \o <<"]", NL>> \o FormatIncludes(Tail(includes))

RECURSIVE FormatEntries(_)
FormatEntries(section) ==
    IF section = <<>> THEN <<>>
    ELSE section[1].k \o <<":", " ">> \o FormatValue(section[1].v) \o <<NL>>
         \o FormatEntries(Tail(section))

RECURSIVE FormatSections(_)
FormatSections(config) ==
    IF config = <<>> THEN <<>>
    ELSE <<"[">> \o config[1].k \o <<"]", NL>> \o FormatEntries(config[1].v) \o <<NL>>
         \o FormatSections(Tail(config))

formatConfig(config, includes) ==
    trim(FormatIncludes(includes)
         \o (IF Len(includes) > 0 THEN <<NL>> ELSE <<>>)
         \o FormatSections(config))

parseKlipperConfig(content, validateSyntax) ==
    ScanAll(ScanStart(content, <<>>), validateSyntax)

parseConfig(content, validateSyntax) ==
    LET ex == extractIncludes(content, 0)
        st == parseKlipperConfig(ex.cleanedContent, validateSyntax)
    IN [config |-> FinalConfig(st), includes |-> ex.extractedIncludes, errors |-> st.errors]

\* ------------------------------------------------------------------------
\* Inputs: texts of at most MaxLines lines (MaxLinesRT for the round trip
\* family) joined by line breaks, the lines drawn from a family of lines
\* ------------------------------------------------------------------------
MaxLines == 3
MaxLinesRT == 4
MaxLinesVal == 2
MaxLinesPar == 2
MaxLinesTool == 2

\* the lines the texts are made of, by name
Line == [
    A |-> <<"[","a","]">>,
    B |-> <<"[","b","]">>,
    D1 |-> <<"[","1","]">>,
    WS |-> <<"["," ","]">>,
    XY |-> <<"[","x"," ","y","]">>,
    KV |-> <<"k",":"," ","v">>,
    JUNK |-> <<"j","u","n","k">>,
    EMPTY |-> <<>>,
    EXT |-> <<"[","e","x","t","r","u","d","e","r","]">>,
    MT |-> <<"m","a","x","_","t","e","m","p",":"," ","6","0","0">>,
    INC0 |-> <<"[","i","n","c","l","u","d","e">>,
    INC |-> <<"[","i","n","c","l","u","d","e"," ","f","]">>,
    INC1 |-> <<"[","i","n","c","l","u","d","e"," ","]">>,
    INC3 |-> <<"[","i","n","c","l","u","d","e"," "," "," ","]">>,
    BLANK |-> <<" "," ">>,
    S |-> <<"[","s","]">>,
    SPEED |-> <<"s","p","e","e","d",":"," ","1","0"," ","\\">>,
    MORE |-> <<"m","o","r","e">>,
    KVC |-> <<"k",":"," ","v","\\">>,
    BSONLY |-> <<"\\">>,
    SC |-> <<"[","s","]"," ","\\">>,
    KBS |-> <<"k",":"," ","v","\\","\\">>,
    BOOL |-> <<"j",":"," ","T","R","U","E">>,
    LIST |-> <<"n",":"," ","0",".","4","0",","," ","b">>,
    VE |-> <<"e",":">>,
    VF |-> <<"f","="," ","F","a","l","s","e">>,
    VN |-> <<"n",":"," ","1","e","3">>,
    VH |-> <<"h",":"," ","0","x","1","F">>,
    VI |-> <<"i",":"," ","I","n","f","i","n","i","t","y">>,
    VNEG |-> <<"m",":"," ","-",".","5">>,
    VL |-> <<"l",":"," ","1",",","2">>,
    VM |-> <<"x",":"," ","t","r","u","e",","," ","1",","," ","b">>,
    VG |-> <<"g",":"," ","a",",",",","b">>,
    VT |-> <<"t",":"," ","1",",">>,
    VS |-> <<"w",":"," ","1"," ","2">>,
    SX |-> <<"[">> \o stepper_x \o <<"]">>,
    SY |-> <<"[">> \o stepper_y \o <<"]">>,
    SZ |-> <<"[">> \o stepper_z \o <<"]">>,
    SX1 |-> <<"[">> \o stepper_x \o <<"1","]">>,
    PA0 |-> step_pin \o <<":"," ","P","A","0">>,
    P123 |-> step_pin \o <<":"," ","1","2","3">>,
    PU |-> step_pin \o <<":"," ","P","_","1">>,
    DINV |-> dir_pin \o <<":"," ","!","P","A","0">>,
    DPA |-> dir_pin \o <<":"," ","P","A">>,
    DB1 |-> dir_pin \o <<":"," ","!","1">>,
    EE |-> enable_pin \o <<":">>,
    EBANG |-> enable_pin \o <<"="," ","P","A","0","!">>,
    EOK |-> enable_pin \o <<"="," ","a","r","1","4">>,
    OPIN |-> <<"o","t","h","e","r","_","p","i","n",":"," ","1","2","3">>,
    EXT1 |-> <<"[">> \o extruder \o <<"1","]">>,
    HB |-> <<"[","h","e","a","t","e","r","_","b","e","d","]">>,
    MTE |-> max_temp \o <<":">>,
    MT250 |-> max_temp \o <<":"," ","2","5","0">>,
    MT0 |-> max_temp \o <<"="," ","0">>,
    MT500 |-> max_temp \o <<":"," ","5","0","0">>,
    MTNEG |-> max_temp \o <<":"," ","-","1">>,
    MTHOT |-> max_temp \o <<":"," ","h","o","t">>,
    MTFRAC |-> max_temp \o <<":"," ","5","0","0",".","5">>,
    RD40 |-> rotation_distance \o <<":"," ","4","0">>,
    RD0 |-> rotation_distance \o <<":"," ","0">>,
    RDNEG |-> rotation_distance \o <<":"," ","-","8">>,
    RDE |-> rotation_distance \o <<":">>,
    RDABC |-> rotation_distance \o <<":"," ","a","b","c">>,
    RDSMALL |-> rotation_distance \o <<"="," ","1","e","-","7">>,
    ND04 |-> nozzle_diameter \o <<":"," ","0",".","4">>,
    ND0 |-> nozzle_diameter \o <<":"," ","0",".","0">>,
    NDE |-> nozzle_diameter \o <<":">>,
    NDX |-> nozzle_diameter \o <<":"," ","x">>,
    NDNEG |-> nozzle_diameter \o <<":"," ","-","0",".","4">>,
    FANX |-> <<"[","f","a","n"," ","x","]">>,
    MYFAN |-> <<"[","m","y"," ","f","a","n","]">>,
    PADXY |-> <<"["," ","x"," ","y"," ","]">>,
    FANXY |-> <<"[","f","a","n","x"," ","y","]">>,
    PROTO |-> <<"[","_","_","p","r","o","t","o","_","_","]">>,
    GM |-> <<"[","g","c","o","d","e","_","m","a","c","r","o"," ","M","]">>,
    KW |-> <<"k"," ","="," ","w">>,
    CMTBS |-> <<" ","#","c"," ","\\">>,
    PROTOK |-> ProtoKey \o <<":"," ","1">> ]


\* the families of lines; "tool" holds the lines of the files the remote
\* serves to the tool handlers
Families == [
    scan |-> {
        Line.A, Line.B, Line.D1, Line.WS, Line.XY, Line.KV, Line.JUNK, Line.EMPTY,
        Line.EXT, Line.MT, Line.PROTO },
    inc |-> {
        Line.INC, Line.INC1, Line.INC3, Line.EMPTY, Line.BLANK, Line.XY, Line.A,
        Line.KV },
    incx |-> {
        Line.INC0, Line.INC, Line.INC3, Line.EMPTY, Line.A, Line.KV },
    cont |-> {
        Line.S, Line.SC, Line.SPEED, Line.MORE, Line.KVC, Line.EMPTY, Line.A,
        Line.BSONLY, Line.CMTBS, Line.BLANK },
    rt |-> {
        Line.S, Line.A, Line.KBS, Line.EMPTY, Line.BOOL, Line.LIST },
    val |-> {
        Line.S, Line.BOOL, Line.LIST, Line.VE, Line.VF, Line.VN, Line.VH, Line.VI,
        Line.VNEG, Line.VL, Line.VM, Line.VG, Line.VT, Line.VS },
    pin |-> {
        Line.SX, Line.SY, Line.SZ, Line.SX1, Line.EXT, Line.PA0, Line.P123, Line.PU,
        Line.DINV, Line.DPA, Line.DB1, Line.EE, Line.EBANG, Line.EOK, Line.OPIN },
    num |-> {
        Line.EXT, Line.SX, Line.SZ, Line.EXT1, Line.SX1, Line.HB, Line.MT, Line.MTE,
        Line.MT250, Line.MT0, Line.MT500, Line.MTNEG, Line.MTHOT, Line.MTFRAC,
        Line.RD40, Line.RD0, Line.RDNEG, Line.RDE, Line.RDABC, Line.RDSMALL, Line.ND04,
        Line.ND0, Line.NDE, Line.NDX, Line.NDNEG },
    fail |-> {
        Line.INC, Line.XY, Line.KV, Line.EMPTY },
    sec |-> {
        Line.A, Line.WS, Line.XY, Line.KV, Line.FANX, Line.MYFAN, Line.PADXY,
        Line.FANXY, Line.GM, Line.PROTO },
    tool |-> {
        Line.S, Line.A, Line.KV },
    dup |-> {
        Line.EXT, Line.A, Line.MT, Line.MT250, Line.KV, Line.KW, Line.PROTOK } ]

FamilyLines(f) == Families[f]

FamilyMax(f) == IF f = "rt" THEN MaxLinesRT
                ELSE IF f = "val" THEN MaxLinesVal
                ELSE IF f \in {"pin", "num"} THEN MaxLinesPar
                ELSE IF f = "tool" THEN MaxLinesTool
                ELSE MaxLines

RECURSIVE SeqsUpTo(_, _)
SeqsUpTo(S, n) == IF n = 0 THEN {<<>>}
                  ELSE LET prev == SeqsUpTo(S, n - 1)
                       IN prev \cup {Append(q, x) : q \in {r \in prev : Len(r) = n - 1}, x \in S}

Texts(f) == {join(ls, <<NL>>) : ls \in SeqsUpTo(FamilyLines(f), FamilyMax(f)) \ {<<>>}}

\* ------------------------------------------------------------------------
\* State: one ConfigParser and the parseConfig call in progress
\* ------------------------------------------------------------------------
\* lastIndex is INCLUDE_PATTERN.lastIndex, the one field that outlives a
\* call; cursorAtEntry records the value the current call found in it.
\* request, remote, reply and tpc are the tool call the server is handling:
\* its name and arguments, what the HTTP request of the handler came to, the
\* outcome of the handler, and the handler's position
VARIABLES family, pc, content, validateSyntax, lastIndex, cursorAtEntry, includes,
          errors, lines, lineNumber, config, currentSection, currentSectionData,
          request, remote, reply, tpc

vars == <<family, pc, content, validateSyntax, lastIndex, cursorAtEntry, includes,
          errors, lines, lineNumber, config, currentSection, currentSectionData,
          request, remote, reply, tpc>>

parserVars == <<pc, content, validateSyntax, lastIndex, cursorAtEntry, includes,
                errors, lines, lineNumber, config, currentSection, currentSectionData>>

toolVars == <<request, remote, reply, tpc>>

\* the values of the four while no call is being handled
No == [request |-> [name |-> "", args |-> [filename |-> Null, sectionName |-> Null]],
       remote |-> [k |-> "none", code |-> "", status |-> 0,
                   data |-> [t |-> "none", s |-> <<>>]],
       reply |-> [kind |-> "none", head |-> "", detail |-> <<>>,
                  error |-> [isMcp |-> FALSE, code |-> "", message |-> <<>>]],
       parseResult |-> [config |-> <<>>, includes |-> <<>>, errors |-> <<>>]]

\* the scanner's locals as one record
Scanner == [lines |-> lines, lineNumber |-> lineNumber, config |-> config,
            currentSection |-> currentSection,
            currentSectionData |-> currentSectionData, errors |-> errors]

SetScanner(st) == /\ lines' = st.lines
                  /\ lineNumber' = st.lineNumber
                  /\ config' = st.config
                  /\ currentSection' = st.currentSection
                  /\ currentSectionData' = st.currentSectionData
                  /\ errors' = st.errors

InitFamily(f) == /\ family = f
                 /\ pc = "idle"
                 /\ content = <<>>
                 /\ validateSyntax = TRUE
                 /\ lastIndex = 0
                 /\ cursorAtEntry = 0
                 /\ includes = <<>>
                 /\ errors = <<>>
                 /\ lines = <<>>
                 /\ lineNumber = 0
                 /\ config = <<>>
                 /\ currentSection = Null
                 /\ currentSectionData = <<>>
                 /\ request = No.request
                 /\ remote = No.remote
                 /\ reply = No.reply
                 /\ tpc = "idle"

Init == InitFamily("scan")

\* parseConfig(text, flag) up to the start of the loop: the includes are
\* extracted and the cleaned text is split into lines (lines 187-233)
StartParse(text, flag) ==
    /\ LET ex == extractIncludes(text, lastIndex)
       IN /\ content' = text
          /\ validateSyntax' = flag
          /\ includes' = ex.extractedIncludes
          /\ SetScanner(ScanStart(ex.cleanedContent, <<>>))
    /\ cursorAtEntry' = lastIndex
    /\ lastIndex' = 0
    /\ pc' = "scan"
    /\ UNCHANGED family

\* a call of parseConfig with some text and some flag
ParseConfigCall ==
    /\ pc = "idle"
    /\ \E text \in Texts(family), flag \in BOOLEAN : StartParse(text, flag)
    /\ UNCHANGED toolVars

\* one iteration of the for loop (lines 235-295)
ScanStep ==
    /\ pc = "scan"
    /\ lineNumber < Len(lines)
    /\ SetScanner(ScanLine(Scanner, validateSyntax))
    /\ UNCHANGED <<family, pc, content, validateSyntax, lastIndex, cursorAtEntry, includes>>
    /\ UNCHANGED toolVars

\* after the loop: the final commit and the return (lines 297-301, 196-200)
ScanEnd ==
    /\ pc = "scan"
    /\ lineNumber = Len(lines)
    /\ config' = FinalConfig(Scanner)
    /\ pc' = "done"
    /\ UNCHANGED <<family, content, validateSyntax, lastIndex, cursorAtEntry, includes,
                   errors, lines, lineNumber, currentSection, currentSectionData>>
    /\ UNCHANGED toolVars

\* the caller takes the result; the parser is ready for the next call
TakeResult ==
    /\ pc = "done"
    /\ pc' = "idle"
    /\ content' = <<>>
    /\ validateSyntax' = TRUE
    /\ includes' = <<>>
    /\ errors' = <<>>
    /\ lines' = <<>>
    /\ lineNumber' = 0
    /\ config' = <<>>
    /\ currentSection' = Null
    /\ currentSectionData' = <<>>
    /\ cursorAtEntry' = 0
    /\ UNCHANGED <<family, lastIndex>>

Return == TakeResult /\ UNCHANGED toolVars

Next == ParseConfigCall \/ ScanStep \/ ScanEnd \/ Return

\* errors.push(`Parse error: ...`) of the catch block (line 202)
ParseError == [line |-> 0, msg |-> "Parse error", key |-> <<>>, arg |-> <<>>]

\* an exception thrown before includes.push (lines 191-192) and caught at
\* line 201: nothing has been added to includes or errors yet.  Thrown in
\* the body of the exec loop (lines 217-220) it leaves the pattern's cursor
\* after the last match found; thrown later it leaves it at 0.
ExtractFail ==
    /\ pc = "idle"
    /\ \E text \in Texts(family), flag \in BOOLEAN :
          /\ content' = text
          /\ validateSyntax' = flag
          /\ LET ms == IncludeMatches(text, 1)
             IN lastIndex' \in {0} \cup {ms[j].to - 1 : j \in 1..Len(ms)}
    /\ cursorAtEntry' = lastIndex
    /\ includes' = <<>>
    /\ errors' = <<ParseError>>
    /\ config' = <<>>
    /\ pc' = "failed"
    /\ UNCHANGED <<family, lines, lineNumber, currentSection, currentSectionData>>
    /\ UNCHANGED toolVars

\* an exception thrown by a call of the next iteration of the loop (the calls
\* of lines 239-286 come before the iteration's errors.push) and caught at
\* line 201: the catch block adds its message to errors and returns the
\* empty document with includes and errors as they are
ScanFail ==
    /\ pc = "scan"
    /\ lineNumber < Len(lines)
    /\ errors' = Append(errors, ParseError)
    /\ config' = <<>>
    /\ pc' = "failed"
    /\ UNCHANGED <<family, content, validateSyntax, lastIndex, cursorAtEntry, includes,
                   lines, lineNumber, currentSection, currentSectionData>>
    /\ UNCHANGED toolVars

\* the caller takes the result of a failed parse
ReturnFailed ==
    /\ pc = "failed"
    /\ pc' = "idle"
    /\ content' = <<>>
    /\ validateSyntax' = TRUE
    /\ includes' = <<>>
    /\ errors' = <<>>
    /\ lines' = <<>>
    /\ lineNumber' = 0
    /\ config' = <<>>
    /\ currentSection' = Null
    /\ currentSectionData' = <<>>
    /\ cursorAtEntry' = 0
    /\ UNCHANGED <<family, lastIndex, toolVars>>

\* the parser in an environment where a call may throw
NextFail == Next \/ ExtractFail \/ ScanFail \/ ReturnFailed

Spec == Init /\ [][Next]_vars
SpecInc == InitFamily("inc") /\ [][Next]_vars
SpecIncX == InitFamily("incx") /\ [][Next]_vars
SpecCont == InitFamily("cont") /\ [][Next]_vars
SpecRT == InitFamily("rt") /\ [][Next]_vars
SpecVal == InitFamily("val") /\ [][Next]_vars
SpecPin == InitFamily("pin") /\ [][Next]_vars
SpecNum == InitFamily("num") /\ [][Next]_vars
SpecSec == InitFamily("sec") /\ [][Next]_vars
SpecDup == InitFamily("dup") /\ [][Next]_vars
SpecFail == InitFamily("fail") /\ [][NextFail]_vars

\* ------------------------------------------------------------------------
\* The Moonraker client: each method makes one HTTP request
\* ------------------------------------------------------------------------
Data(t, s) == [t |-> t, s |-> s]

\* what a request comes to: a response with a body, a failure with an axios
\* error code and no response, or a response with an error status
HttpOk(data) == [k |-> "ok", code |-> "", status |-> 200, data |-> data]
HttpFailed(code, status) == [k |-> IF status = 0 THEN "code" ELSE "status",
                             code |-> code, status |-> status,
                             data |-> No.remote.data]

HttpFailures == {HttpFailed("ECONNREFUSED", 0), HttpFailed("ETIMEDOUT", 0), HttpFailed("ECONNRESET", 0),
                 HttpFailed("", 403), HttpFailed("", 404), HttpFailed("", 500), HttpFailed("", 503)}

\* a body that is not of the shape the method reads
Malformed == Data("malformed", <<>>)

\* the outcome of a client method: a value, or an Error with a message
Returned(v) == [threw |-> FALSE, message |-> <<>>, value |-> v]
Threw(msg) == [threw |-> TRUE, message |-> msg, value |-> No.remote.data]

\* the message of the error the response interceptor throws for a failed
\* request: its own for the two codes it knows, the axios error otherwise
Intercepted(h) ==
    IF h.code = "ECONNREFUSED" THEN <<"Cannot connect to Moonraker">>
    ELSE IF h.code = "ETIMEDOUT" THEN <<"Connection timeout to Moonraker">>
    ELSE <<"AxiosError">>

\* the interceptor's errors for the two codes are no axios errors
IsAxiosError(h) == h.k # "ok" /\ h.code \notin {"ECONNREFUSED", "ETIMEDOUT"}

getConfigFile(h) ==
    IF h.k = "ok" THEN Returned(h.data)
    ELSE IF IsAxiosError(h) /\ h.status = 404 THEN Threw(<<"Config file not found">>)
    ELSE IF IsAxiosError(h) /\ h.status = 403 THEN Threw(<<"Access denied to config file">>)
    ELSE Threw(Intercepted(h))

\* without a pattern: the `result` of the body as it is
listConfigFiles(h) ==
    IF h.k = "ok" THEN Returned(h.data)
    ELSE IF IsAxiosError(h) /\ h.status = 404 THEN Threw(<<"Config directory not found">>)
    ELSE Threw(Intercepted(h))

getPrinterStatus(h) ==
    IF h.k = "ok"
    THEN IF h.data.t = "stats" THEN Returned(h.data)
         ELSE Threw(<<"Invalid response structure from Moonraker">>)
    ELSE IF IsAxiosError(h) /\ h.status = 503 THEN Threw(<<"Klipper is not ready or not running">>)
    ELSE Threw(Intercepted(h))

\* response.data.result: a body that is no object at all throws a TypeError
getSystemInfo(h) ==
    IF h.k = "ok"
    THEN IF h.data.t = "malformed" THEN Threw(<<"TypeError">>) ELSE Returned(h.data)
    ELSE Threw(Intercepted(h))

\* ------------------------------------------------------------------------
\* The tool handlers
\* ------------------------------------------------------------------------
ToolNames == {"get_config_file", "list_config_files", "parse_config",
              "get_config_section", "get_printer_status", "get_system_info"}

ConfigTools == {"get_config_file", "parse_config", "get_config_section"}

\* new McpError(code, message): the message carries the code
McpError(code, msg) == [isMcp |-> TRUE, code |-> code,
                        message |-> <<"MCP error", code>> \o msg]
JsError(msg) == [isMcp |-> FALSE, code |-> "", message |-> msg]

\* the two ways a handler ends
TextResult(head, detail) == [kind |-> "result", head |-> head, detail |-> detail,
                             error |-> No.reply.error]
Thrown(err) == [kind |-> "error", head |-> "", detail |-> <<>>, error |-> err]

\* !x || x.trim() === ''
IsMissing(x) == ~Truthy(x) \/ trim(x.s) = <<>>

\* the names every plain object inherits from Object.prototype
ObjectPrototypeKeys ==
    {ProtoKey,
     <<"c","o","n","s","t","r","u","c","t","o","r">>,
     <<"t","o","S","t","r","i","n","g">>}

\* config[sectionName] || null, for a document none of whose headers is
\* `[__proto__]`: an own section, else the inherited member of that name
\* (a function or Object.prototype: truthy, with no entries), else null
getSection(cfg, sectionName) ==
    IF ObjHas(cfg, sectionName) THEN [isNull |-> FALSE, entries |-> ObjGet(cfg, sectionName)]
    ELSE IF sectionName \in ObjectPrototypeKeys THEN [isNull |-> FALSE, entries |-> <<>>]
    ELSE [isNull |-> TRUE, entries |-> <<>>]

handleGetConfigFile(args, h) ==
    IF IsMissing(args.filename)
    THEN Thrown(McpError("InvalidParams", <<"Filename is required">>))
    ELSE LET r == getConfigFile(h)
         IN IF r.threw THEN Thrown(JsError(r.message))
            ELSE TextResult("Configuration file", r.value.s)

\* the files are listed as they come, `No files found` for none; a body
\* without `result` makes files.map throw
handleListConfigFiles(args, h) ==
    LET r == listConfigFiles(h)
    IN IF r.threw THEN Thrown(JsError(r.message))
       ELSE IF r.value.t # "files" THEN Thrown(JsError(<<"TypeError">>))
       ELSE TextResult("Configuration files",
                       IF r.value.s = <<>> THEN <<"No files found">> ELSE r.value.s)

\* the text shows the errors, the includes and the sections of parseResult,
\* what this.parser.parseConfig(content, true) returned
handleParseConfig(args, h, parseResult) ==
    IF IsMissing(args.filename)
    THEN Thrown(McpError("InvalidParams", <<"Filename is required">>))
    ELSE LET r == getConfigFile(h)
         IN IF r.threw THEN Thrown(JsError(r.message))
            ELSE TextResult("Parsed configuration file",
                            [errors |-> parseResult.errors,
                             includes |-> parseResult.includes,
                             sections |-> FormatSections(parseResult.config)])

handleGetConfigSection(args, h, parseResult) ==
    IF IsMissing(args.filename)
    THEN Thrown(McpError("InvalidParams", <<"Filename is required">>))
    ELSE IF IsMissing(args.sectionName)
    THEN Thrown(McpError("InvalidParams", <<"Section name is required">>))
    ELSE LET r == getConfigFile(h)
         IN IF r.threw THEN Thrown(JsError(r.message))
            ELSE LET section == getSection(parseResult.config, args.sectionName.s)
                 IN IF section.isNull
                    THEN TextResult("Section not found",
                                    join(ObjKeys(parseResult.config), <<",", " ">>))
                    ELSE TextResult("Section", FormatEntries(section.entries))

handleGetPrinterStatus(h) ==
    LET r == getPrinterStatus(h)
    IN IF r.threw THEN TextResult("Printer Status Error", r.message)
       ELSE TextResult("Printer Status", r.value.s)

handleGetSystemInfo(h) ==
    LET r == getSystemInfo(h)
    IN IF r.threw THEN TextResult("System Information Error", r.message)
       ELSE IF r.value.t = "null"
       THEN TextResult("System Information Error",
                       <<"Received null/undefined response from Moonraker">>)
       ELSE TextResult("System Information", r.value.s)

\* the switch of the CallTool handler
Dispatch(name, args, h, parseResult) ==
    IF name = "get_config_file" THEN handleGetConfigFile(args, h)
    ELSE IF name = "list_config_files" THEN handleListConfigFiles(args, h)
    ELSE IF name = "parse_config" THEN handleParseConfig(args, h, parseResult)
    ELSE IF name = "get_config_section" THEN handleGetConfigSection(args, h, parseResult)
    ELSE IF name = "get_printer_status" THEN handleGetPrinterStatus(h)
    ELSE IF name = "get_system_info" THEN handleGetSystemInfo(h)
    ELSE Thrown(McpError("MethodNotFound", <<"Unknown tool">>))

\* the CallTool handler: the switch inside try, and the catch that throws a
\* new McpError for whatever was thrown
CallToolHandler(name, args, h, parseResult) ==
    LET out == Dispatch(name, args, h, parseResult)
    IN IF out.kind = "error"
       THEN Thrown(McpError("InternalError", <<"Tool execution failed">> \o out.error.message))
       ELSE out

\* the handler gets as far as its HTTP request
Awaits(name, args) ==
    /\ name \in ToolNames
    /\ name \in ConfigTools => ~IsMissing(args.filename)
    /\ name = "get_config_section" => ~IsMissing(args.sectionName)

\* the handler gets as far as its call of parseConfig
Parses(name, h) == name \in {"parse_config", "get_config_section"} /\ h.k = "ok"

\* ------------------------------------------------------------------------
\* Tool calls
\* ------------------------------------------------------------------------
\* the names a client may call: the six tools, and one the server does not have
RequestNames == ToolNames \cup {"get_log_file"}

FilenameArgs == {Null, Str(<<>>), Str(<<" ">>), Str(<<"p",".","c","f","g">>)}

SectionNameArgs == {Null, Str(<<>>), Str(<<" ">>), Str(<<"a">>), Str(<<"z">>),
                    Str(<<"c","o","n","s","t","r","u","c","t","o","r">>)}

\* what the request of a tool's handler can come to
HttpOutcomes(name) ==
    HttpFailures \cup
    (IF name \in ConfigTools
     THEN {HttpOk(Data("text", text)) : text \in Texts("tool")}
     ELSE IF name = "list_config_files"
     THEN {HttpOk(Data("files", <<>>)), HttpOk(Data("files", <<"printer.cfg">>)),
           HttpOk(Malformed)}
     ELSE IF name = "get_printer_status"
     THEN {HttpOk(Data("stats", <<"printing">>)), HttpOk(Malformed)}
     ELSE {HttpOk(Data("info", <<"cpu">>)), HttpOk(Data("null", <<>>)), HttpOk(Malformed)})

\* a tools/call request arrives: the handler runs up to its HTTP request, or
\* to its end when it throws before it
CallTool ==
    /\ tpc = "idle"
    /\ \E name \in RequestNames, filename \in FilenameArgs, sectionName \in SectionNameArgs :
          LET args == [filename |-> filename, sectionName |-> sectionName]
          IN /\ request' = [name |-> name, args |-> args]
             /\ IF Awaits(name, args)
                THEN tpc' = "await" /\ reply' = No.reply
                ELSE /\ tpc' = "replied"
                     /\ reply' = CallToolHandler(name, args, No.remote, No.parseResult)
    /\ remote' = No.remote
    /\ UNCHANGED <<family, parserVars>>

\* the HTTP request settles and the handler goes on: to its end, or into
\* parseConfig(content, true) with the file it got
RemoteSettles ==
    /\ tpc = "await"
    /\ \E h \in HttpOutcomes(request.name) :
          /\ remote' = h
          /\ IF Parses(request.name, h)
             THEN /\ StartParse(h.data.s, TRUE)
                  /\ tpc' = "parse"
                  /\ reply' = No.reply
             ELSE /\ tpc' = "replied"
                  /\ reply' = CallToolHandler(request.name, request.args, h, No.parseResult)
                  /\ UNCHANGED <<family, parserVars>>
    /\ UNCHANGED request

\* parseConfig returns to the handler, which runs to its end
ParseReturns ==
    /\ tpc = "parse"
    /\ TakeResult
    /\ reply' = CallToolHandler(request.name, request.args, remote,
                                [config |-> config, includes |-> includes,
                                 errors |-> errors])
    /\ tpc' = "replied"
    /\ UNCHANGED <<request, remote>>

\* the outcome goes to the client; the server is ready for the next call
ClientReceives ==
    /\ tpc = "replied"
    /\ tpc' = "idle"
    /\ request' = No.request
    /\ remote' = No.remote
    /\ reply' = No.reply
    /\ UNCHANGED <<family, parserVars>>

\* the scanner's steps are those of the parse a handler is in
NextTool == CallTool \/ RemoteSettles \/ ScanStep \/ ScanEnd \/ ParseReturns \/ ClientReceives

SpecTool == InitFamily("tool") /\ [][NextTool]_vars

TypeOK == /\ pc \in {"idle", "scan", "done", "failed"}
          /\ lineNumber \in 0..Len(lines)
          /\ lastIndex \in Nat
          /\ cursorAtEntry \in Nat
          /\ tpc \in {"idle", "await", "parse", "replied"}

\* ------------------------------------------------------------------------
\* The input text seen as physical lines
\* ------------------------------------------------------------------------
PhysLines == split(content, NL)

\* the text has no continuation and no include syntax: every physical line
\* is a logical line of the scan
Plain == /\ ~includesChar(content, BS)
         /\ \A i \in 1..Len(PhysLines) : ~startsWith(PhysLines[i], IncludeWord)

Scanned_(l) == ~IsComment(l) /\ ~IsBlank(l)

Scanned(i) == Scanned_(PhysLines[i])

HeaderIdx == {i \in 1..Len(PhysLines) : Scanned(i) /\ IsSectionLine(PhysLines[i])}

NameAt(i) == trim(SubSeq(PhysLines[i], 2, SectionClose(PhysLines[i]) - 1))

KvIdx == {i \in 1..Len(PhysLines) : /\ Scanned(i)
                                    /\ ~IsSectionLine(PhysLines[i])
                                    /\ KeyValueSep(PhysLines[i]) # 0
                                    /\ KeyOf(PhysLines[i]) # <<>>}

\* the header a line stands under (0: none), and the last line of that occurrence
OwnerOf(i) == LET hs == {h \in HeaderIdx : h < i} IN IF hs = {} THEN 0 ELSE Max(hs)

LastHeaderOf(name) == Max({h \in HeaderIdx : NameAt(h) = name})

\* line i is a key/value line under the last header of a section with a name,
\* and no later line of that occurrence sets the same key
Effective(i) == /\ i \in KvIdx
                /\ OwnerOf(i) # 0
                /\ NameAt(OwnerOf(i)) # <<>>
                /\ LastHeaderOf(NameAt(OwnerOf(i))) = OwnerOf(i)
                /\ \A j \in KvIdx : (j > i /\ OwnerOf(j) = OwnerOf(i))
                                     => KeyOf(PhysLines[j]) # KeyOf(PhysLines[i])

StoredAt(i) == LET name == NameAt(OwnerOf(i))
                   key == KeyOf(PhysLines[i])
               IN /\ ObjHas(config, name)
                  /\ ObjHas(ObjGet(config, name), key)
                  /\ ObjGet(ObjGet(config, name), key) = parseValue(ValueOf(PhysLines[i]))

\* C1 (as claimed): the scan is never stuck before the end of the text (a line is left to
\* scan or the parse returns), and the returned document has the section of
\* every header with a name and the value of every effective key/value line,
\* whatever malformed lines (bad section name, content outside a section,
\* unparseable line, failed parameter rule) came before it.
C1_Recognized ==
    /\ pc = "scan" => lineNumber <= Len(lines)
    /\ (pc = "done" /\ Plain) =>
          /\ lineNumber = Len(lines)
          /\ \A h \in HeaderIdx : NameAt(h) # <<>> => ObjHas(config, NameAt(h))
          /\ \A i \in KvIdx : Effective(i) => StoredAt(i)

\* a returned parse with a diagnostic on an earlier line and a value stored after it
C1_Witness ==
    /\ pc = "done" /\ Plain /\ errors # <<>>
    /\ \E i \in KvIdx : Effective(i) /\ StoredAt(i) /\ errors[1].line < i

\* C2: the validation flag does not change the document or the include
\* list; without validation no diagnostic is recorded.
C2_FlagIndependent ==
    pc = "done" =>
        LET other == parseConfig(content, ~validateSyntax)
        IN /\ other.config = config
           /\ other.includes = includes
           /\ (~validateSyntax => errors = <<>>)
           /\ (validateSyntax => other.errors = <<>>)

\* a validated parse that recorded a diagnostic and returned a non-empty document
C2_Witness == pc = "done" /\ validateSyntax /\ errors # <<>> /\ config # <<>>

SectionNames == {config[i].k : i \in 1..Len(config)}

\* the keys of the key/value lines between header h and the next header
KeysUnder(h) == {KeyOf(PhysLines[i]) : i \in {j \in KvIdx : OwnerOf(j) = h}}

\* C3 (as claimed): with no diagnostics, the section names of the document are
\* the distinct trimmed names of the section headers, and each section
\* holds the keys that follow the last header of its name.
C3_Claim ==
    (pc = "done" /\ Plain /\ validateSyntax /\ errors = <<>>) =>
        /\ SectionNames = {NameAt(h) : h \in HeaderIdx}
        /\ \A h \in HeaderIdx : LastHeaderOf(NameAt(h)) = h =>
              /\ ObjHas(config, NameAt(h))
              /\ {e.k : e \in {ObjGet(config, NameAt(h))[i] :
                        i \in 1..Len(ObjGet(config, NameAt(h)))}} = KeysUnder(h)

RECURSIVE SortedSeq(_)
SortedSeq(S) == IF S = {} THEN <<>> ELSE <<Min(S)>> \o SortedSeq(S \ {Min(S)})

\* the names of the headers, each at the place of its last header
LastAppearanceOrder ==
    LET last == SortedSeq({h \in HeaderIdx : NameAt(h) # <<>> /\ LastHeaderOf(NameAt(h)) = h})
    IN [i \in 1..Len(last) |-> NameAt(last[i])]

\* C4 (as claimed): iterating the document yields the sections in the order
\* in which their headers last appeared, digit-string names included.
C4_Claim == (pc = "done" /\ Plain) => ObjKeys(config) = LastAppearanceOrder

\* C10: no section of the document is keyed by the empty string.
C10_NoEmptyName == \A i \in 1..Len(config) : config[i].k # <<>>

\* a returned non-empty document for a text with a header of white space only
C10_Witness == /\ pc = "done" /\ Plain /\ config # <<>>
               /\ \E h \in HeaderIdx : NameAt(h) = <<>>

\* the sections, keys and values of a document, order aside
ContentOf(doc) == UNION {{<<doc[i].k, doc[i].v[j].k, doc[i].v[j].v>> :
                              j \in 1..Len(doc[i].v)} : i \in 1..Len(doc)}

SameContent(d1, d2) == /\ {d1[i].k : i \in 1..Len(d1)} = {d2[i].k : i \in 1..Len(d2)}
                       /\ ContentOf(d1) = ContentOf(d2)

\* C5 (as claimed): parsing the serialized form of a returned document and
\* include list gives back the same sections, keys, values and include list.
C5_Claim ==
    pc = "done" =>
        LET again == parseConfig(formatConfig(config, includes), validateSyntax)
        IN SameContent(again.config, config) /\ again.includes = includes

\* ------------------------------------------------------------------------
\* Continuation
\* ------------------------------------------------------------------------
TrimRight(s) == LET idx == {i \in 1..Len(s) : ~IsWS(s[i])}
                IN IF idx = {} THEN <<>> ELSE SubSeq(s, 1, Max(idx))

\* the part of a line before its last backslash
BeforeBackslash(raw) == SubSeq(raw, 1, Max({i \in 1..Len(raw) : raw[i] = BS}) - 1)

\* the scanner is about to process a continuation line that has a following line
AtContinuation == /\ pc = "scan"
                  /\ lineNumber + 1 < Len(lines)
                  /\ Scanned_(lines[lineNumber + 1])
                  /\ HasContinuation(lines[lineNumber + 1])

\* the step handled the logical line E: the following line is blanked, a
\* header opens its section, a key/value line under an open section is stored
HandledAs(E) ==
    /\ lineNumber' = lineNumber + 1
    /\ lines'[lineNumber + 2] = <<>>
    /\ IsSectionLine(E) => currentSection' = SectionNameOf(E)
    /\ (/\ ~IsSectionLine(E) /\ Truthy(currentSection)
        /\ KeyValueSep(E) # 0 /\ KeyOf(E) # <<>>)
       => /\ ObjHas(currentSectionData', KeyOf(E))
          /\ ObjGet(currentSectionData', KeyOf(E)) = parseValue(ValueOf(E))

IsIncludeForm(l) == IncludeMatchAt(l, 1).ok /\ IncludeMatchAt(l, 1).to = Len(l) + 1

PathOfLine(l) == trim(IncludeMatchAt(l, 1).path)

\* a line [include ] whose bracket holds nothing but white space after the word
IsEmptyInclude(l) ==
    /\ startsWith(l, IncludeWord)
    /\ \E c \in (Len(IncludeWord) + 1)..Len(l) :
          /\ l[c] = "]"
          /\ \A j \in (Len(IncludeWord) + 1)..Len(l) : j # c => IsWS(l[j])

RECURSIVE PathsOf(_)
PathsOf(ls) == IF ls = <<>> THEN <<>>
               ELSE (IF IsIncludeForm(ls[1]) /\ PathOfLine(ls[1]) # <<>>
                     THEN <<PathOfLine(ls[1])>> ELSE <<>>) \o PathsOf(Tail(ls))

\* the physical line a diagnostic points at holds the content it reports
Offends(pl, e) ==
    /\ ~IsComment(pl) /\ ~IsBlank(pl)
    /\ LET base == IF HasContinuation(pl) THEN StripContinuation(pl) ELSE pl
       IN IF e.msg \in {"Invalid section name", "Empty section name"}
          THEN pl[1] = "[" /\ startsWith(e.arg, trim(SubSeq(base, 2, Len(base) - 1)))
          ELSE IF e.key # <<>>
          THEN KeyValueSep(base) # 0 /\ KeyOf(base) = e.key
          ELSE startsWith(e.arg, trim(base))

\* C7 (as claimed): every diagnostic carries the 1-based number of the
\* physical line of the input on which the offending content stands.
C7_Claim ==
    pc = "done" =>
        \A n \in 1..Len(errors) :
            /\ errors[n].line <= Len(PhysLines)
            /\ Offends(PhysLines[errors[n].line], errors[n])

\* a is b with some elements left out
RECURSIVE IsSubsequence(_, _)
IsSubsequence(a, b) == IF a = <<>> THEN TRUE
                       ELSE IF b = <<>> THEN FALSE
                       ELSE IF a[1] = b[1] THEN IsSubsequence(Tail(a), Tail(b))
                       ELSE IsSubsequence(a, Tail(b))

\* C8 (as claimed): the trimmed paths of the lines of the form
\* [include <path>] with a non-empty path are in the include list, in order
\* and with their duplicates, and no such line is left for the scan.
C8_Claim ==
    pc = "done" =>
        /\ IsSubsequence(PathsOf(PhysLines), includes)
        /\ \A i \in 1..Len(lines) :
              ~(IsIncludeForm(lines[i]) /\ PathOfLine(lines[i]) # <<>>)

\* C9 (as claimed): an include line with an empty or white-space path opens
\* no section named include, and a text of such lines and blank lines
\* yields no include, no section and no diagnostic.
C9_Claim ==
    pc = "done" =>
        /\ (/\ \E i \in 1..Len(PhysLines) : IsEmptyInclude(PhysLines[i])
            /\ \A i \in 1..Len(PhysLines) :
                  IsSectionLine(PhysLines[i]) => IsEmptyInclude(PhysLines[i])
                                                 \/ NameAt(i) # Tail(IncludeWord))
           => ~ObjHas(config, Tail(IncludeWord))
        /\ (\A i \in 1..Len(PhysLines) :
               IsEmptyInclude(PhysLines[i]) \/ IsBlank(PhysLines[i]))
           => (config = <<>> /\ includes = <<>> /\ errors = <<>>)

\* ------------------------------------------------------------------------
\* Outcomes of one iteration of the scan
\* ------------------------------------------------------------------------
\* the scanner is about to process a line that is neither blank nor a comment
AtScannedLine == /\ pc = "scan"
                 /\ lineNumber < Len(lines)
                 /\ Scanned_(lines[lineNumber + 1])

\* the logical line of the coming iteration
CurrentLine == LogicalLine(lines, lineNumber + 1)

\* the iteration opened a section
StepOpens == IsSectionLine(CurrentLine) /\ Truthy(currentSection')

\* the iteration stored a parameter in the open section
StepStores == /\ ~IsSectionLine(CurrentLine)
              /\ Truthy(currentSection)
              /\ KeyValueSep(CurrentLine) # 0
              /\ ObjHas(currentSectionData', KeyOf(CurrentLine))

\* the iteration recorded n diagnostics, each with the number of the line
StepDiagnoses(n) == /\ Len(errors') = Len(errors) + n
                    /\ SubSeq(errors', 1, Len(errors)) = errors
                    /\ \A j \in (Len(errors) + 1)..Len(errors') :
                          errors'[j].line = lineNumber + 1

\* C11 (as claimed): with validation, no line that is neither blank nor a
\* comment is dropped without a diagnostic: it opens a section, is stored as
\* a parameter or is reported, a header whose name is white space included.
C11_Claim ==
    [][(AtScannedLine /\ validateSyntax) =>
          (StepOpens \/ StepStores \/ StepDiagnoses(1))]_vars

\* ------------------------------------------------------------------------
\* Value inference
\* ------------------------------------------------------------------------
IsBoolWord(v) == toLowerCase(v) \in {<<"t","r","u","e">>, <<"f","a","l","s","e">>}

IsFiniteNumber(v) == Number(v).k = "fin"

\* r is the inference of the value string v, which holds no comma
InferredScalar(v, r) ==
    IF v = <<>> THEN r = StrV(<<>>)
    ELSE IF IsBoolWord(v) THEN r = BoolV(ToLowerChar(v[1]) = "t")
    ELSE IF IsFiniteNumber(v) THEN r = NumV(Number(v))
    ELSE r = StrV(v)

\* r is the inference of the value string v
Inferred(v, r) ==
    IF includesChar(v, ",")
    THEN LET segments == split(v, ",")
         IN /\ r.t = "list"
            /\ Len(r.l) = Len(segments)
            /\ \A j \in 1..Len(segments) :
                  /\ r.l[j].t \in {"bool", "num", "str"}
                  /\ InferredScalar(trim(segments[j]), r.l[j])
    ELSE InferredScalar(v, r)

\* the value the document holds for the key/value line i
ValueAt(i) == ObjGet(ObjGet(config, NameAt(OwnerOf(i))), KeyOf(PhysLines[i]))

\* C12: the stored value of a key/value line follows the priority empty
\* string, boolean word in any letter case, finite number, list, string; a
\* value with a comma is a list whose elements are the inferences of its
\* trimmed segments, each a boolean, a number or a string.
C12_Inference ==
    (pc = "done" /\ Plain) =>
        \A i \in KvIdx : Effective(i) => Inferred(ValueOf(PhysLines[i]), ValueAt(i))

\* a returned document holds a list with a boolean, a number and a string
C12_Witness ==
    /\ pc = "done" /\ Plain
    /\ \E i \in KvIdx :
          /\ Effective(i)
          /\ ValueAt(i) = ListV(<<BoolV(TRUE), NumV(Number(<<"1">>)), StrV(<<"b">>)>>)

\* ------------------------------------------------------------------------
\* Parameter rules
\* ------------------------------------------------------------------------
\* the coming iteration handles a key/value line of the open section
AtParameter(sections, keys) ==
    /\ AtScannedLine
    /\ ~IsSectionLine(CurrentLine)
    /\ Truthy(currentSection)
    /\ currentSection.s \in sections
    /\ KeyValueSep(CurrentLine) # 0
    /\ KeyOf(CurrentLine) \in keys

Steppers == {stepper_x, stepper_y, stepper_z}
PinKeys == {step_pin, dir_pin, enable_pin}

\* an optional `!`, then one or more letters, then one or more digits
PinShaped(v) ==
    \E a \in 0..1, b \in 1..Len(v) :
        /\ a + b < Len(v)
        /\ a = 1 => v[1] = "!"
        /\ \A j \in (a + 1)..(a + b) : IsLetter(v[j])
        /\ \A j \in (a + b + 1)..Len(v) : IsDigit(v[j])

\* the iteration recorded one diagnostic with the message msg for the key of the line
StepReports(msg) == /\ StepDiagnoses(1)
                    /\ errors'[Len(errors')].msg = msg
                    /\ errors'[Len(errors')].key = KeyOf(CurrentLine)

\* C13: with validation, a step_pin, dir_pin or enable_pin line in stepper_x,
\* stepper_y or stepper_z records no diagnostic when its value is an optional
\* `!`, letters and then digits, and exactly one invalid pin format
\* diagnostic otherwise.
C13_PinFormat ==
    [][(AtParameter(Steppers, PinKeys) /\ validateSyntax) =>
          IF PinShaped(ValueOf(CurrentLine)) THEN errors' = errors
          ELSE StepReports("Invalid pin format")]_vars

\* `step_pin: 123` under [stepper_x] has been parsed with its one diagnostic
C13_Witness ==
    /\ pc = "done" /\ validateSyntax
    /\ PhysLines = <<Line.SX, Line.P123>>
    /\ Len(errors) = 1
    /\ errors[1].msg = "Invalid pin format" /\ errors[1].line = 2

\* the value string is a number as the claims read it: not empty and not NaN
ParsesAsNumber(v) == v # <<>> /\ Number(v).k # "nan"

\* C14 (as claimed): with validation, a max_temp line in extruder records no
\* diagnostic exactly when its value is a number n with 0 <= n <= 500 and
\* exactly one diagnostic otherwise; the empty value is diagnosed.
C14_Claim ==
    [][(AtParameter({extruder}, {max_temp}) /\ validateSyntax) =>
          LET v == ValueOf(CurrentLine)
          IN IF ParsesAsNumber(v) /\ ~LtZero(Number(v)) /\ ~GtInt(Number(v), 500)
             THEN errors' = errors
             ELSE StepReports("Invalid max_temp")]_vars

\* C15: with validation, rotation_distance in stepper_x, stepper_y or
\* stepper_z and nozzle_diameter in extruder record a diagnostic exactly when
\* the value is not a number strictly greater than 0; 0, negative,
\* non-numeric and empty values are diagnosed.
C15_Positive ==
    [][validateSyntax =>
          LET v == ValueOf(CurrentLine)
              positive == ParsesAsNumber(v) /\ ~LeqZero(Number(v))
          IN /\ AtParameter(Steppers, {rotation_distance}) =>
                   IF positive THEN errors' = errors
                   ELSE StepReports("Invalid rotation_distance")
             /\ AtParameter({extruder}, {nozzle_diameter}) =>
                   IF positive THEN errors' = errors
                   ELSE StepReports("Invalid nozzle_diameter")]_vars

\* the empty rotation_distance under [stepper_x] has been parsed with its diagnostic
C15_Witness ==
    /\ pc = "done" /\ validateSyntax
    /\ PhysLines = <<Line.SX, Line.RDE>>
    /\ Len(errors) = 1
    /\ errors[1].msg = "Invalid rotation_distance" /\ errors[1].line = 2

\* the (section, key) pairs that have a parameter rule
Listed(section, key) ==
    \/ section \in Steppers /\ key \in PinKeys \cup {rotation_distance}
    \/ section = extruder /\ key \in {nozzle_diameter, max_temp}

ParameterMessages == {"Invalid pin format", "Invalid rotation_distance",
                      "Invalid nozzle_diameter", "Invalid max_temp"}

\* the coming iteration handles a key/value line whose pair has no rule
AtUnlisted == /\ AtScannedLine
              /\ ~IsSectionLine(CurrentLine)
              /\ Truthy(currentSection)
              /\ KeyValueSep(CurrentLine) # 0
              /\ ~Listed(currentSection.s, KeyOf(CurrentLine))

\* C16: a key/value line whose (section, key) pair is not one of the listed
\* pairs records no parameter-rule diagnostic, whatever its value.
C16_OnlyListed ==
    [][AtUnlisted =>
          \A j \in (Len(errors) + 1)..Len(errors') :
              errors'[j].msg \notin ParameterMessages]_vars

\* `max_temp: 600` under [extruder1] has been parsed and stored with no diagnostic
C16_Witness ==
    /\ pc = "done" /\ validateSyntax
    /\ PhysLines = <<Line.EXT1, Line.MT>>
    /\ errors = <<>>
    /\ ObjHas(config, extruder \o <<"1">>)
    /\ ObjHas(ObjGet(config, extruder \o <<"1">>), max_temp)

\* ------------------------------------------------------------------------
\* Lines outside of a section
\* ------------------------------------------------------------------------
\* the headers the scan sees: the lines of the form [include <path>] are removed
ScanHeaderIdx == {h \in HeaderIdx : ~IsIncludeForm(PhysLines[h])}

\* a section is open at the physical line i
OpenAt(i) == LET hs == {h \in ScanHeaderIdx : h < i}
             IN hs # {} /\ NameAt(Max(hs)) # <<>>

\* the lines that are neither blank, comment nor header and stand where no section is open
OutsideIdx == {i \in 1..Len(PhysLines) : /\ Scanned(i)
                                         /\ ~IsSectionLine(PhysLines[i])
                                         /\ ~OpenAt(i)}

\* the diagnostics of the physical line i that report content outside of a section
OutsideErrors(i) == {n \in 1..Len(errors) :
                        /\ errors[n].line = i
                        /\ errors[n].msg = "Configuration outside of section"
                        /\ errors[n].arg = trim(PhysLines[i])}

\* header h has a name, is the last header of its name, and no key/value line follows it
\* before the next header
BareHeader(h) == /\ NameAt(h) # <<>>
                 /\ \A g \in ScanHeaderIdx : g > h => NameAt(g) # NameAt(h)
                 /\ \A i \in KvIdx : i > h => \E g \in ScanHeaderIdx : h < g /\ g < i

\* C17 (as claimed): with validation, every line that is neither blank,
\* comment nor header and stands where no section is open has exactly one
\* outside of section diagnostic with its own line number and stores
\* nothing; a header with no parameter line after it gives an empty section.
C17_Claim ==
    (pc = "done" /\ validateSyntax /\ ~includesChar(content, BS)) =>
        /\ \A i \in OutsideIdx : Cardinality(OutsideErrors(i)) = 1
        /\ (\A h \in ScanHeaderIdx : NameAt(h) = <<>>) => config = <<>>
        /\ \A h \in ScanHeaderIdx : BareHeader(h) =>
              ObjHas(config, NameAt(h)) /\ ObjGet(config, NameAt(h)) = <<>>

\* ------------------------------------------------------------------------
\* Failure of a parse
\* ------------------------------------------------------------------------
\* C18 (as claimed): a parse that fails returns the empty document, the
\* empty include list and exactly one diagnostic, the one of the failure.
C18_Claim ==
    pc = "failed" => /\ config = <<>>
                     /\ includes = <<>>
                     /\ errors = <<ParseError>>

\* ------------------------------------------------------------------------
\* Independence of the calls
\* ------------------------------------------------------------------------
\* C19: whatever calls came before on the same parser, and wherever they
\* left the cursor of the shared include pattern, the include scan of a call
\* starts at the beginning of its text, and the returned document, include
\* list and diagnostics are those given by the call's own arguments.
C19_Independent ==
    /\ pc \in {"scan", "done"} => includes = CollectIncludes(IncludeMatches(content, 1))
    /\ pc = "done" =>
          LET own == parseConfig(content, validateSyntax)
          IN /\ config = own.config
             /\ includes = own.includes
             /\ errors = own.errors

\* a call that found the cursor away from 0 has returned the include of its text
C19_Witness == pc = "done" /\ cursorAtEntry # 0 /\ includes # <<>>

\* ------------------------------------------------------------------------
\* Section names
\* ------------------------------------------------------------------------
\* the trimmed bracket content of the header the coming iteration handles
HeaderName == trim(SubSeq(CurrentLine, 2, SectionClose(CurrentLine) - 1))

\* the name has a space and begins with none of the recognized prefixes
BadName(name) == /\ \E j \in 1..Len(name) : name[j] = " "
                 /\ \A i \in 1..Len(validPrefixes) :
                       ~startsWith(name, validPrefixes[i])

\* C20 (as claimed): with validation, the iteration of a section header
\* records a section-name diagnostic exactly when the trimmed name has a
\* space and no recognized prefix; whenever the trimmed name is not empty the
\* section is opened under it, and the returned document holds the section
\* and the parameters that follow the header under that name.
C20_Claim ==
    [][/\ (AtScannedLine /\ IsSectionLine(CurrentLine) /\ validateSyntax /\ pc' = "scan") =>
             /\ IF BadName(HeaderName)
                THEN /\ StepDiagnoses(1)
                     /\ errors'[Len(errors')].msg = "Invalid section name"
                     /\ errors'[Len(errors')].arg = HeaderName
                ELSE errors' = errors
             /\ HeaderName # <<>> => /\ currentSection' = Str(HeaderName)
                                     /\ currentSectionData' = <<>>
       /\ (pc = "done" /\ Plain) =>
             /\ \A h \in HeaderIdx : NameAt(h) # <<>> => ObjHas(config, NameAt(h))
             /\ \A i \in KvIdx : Effective(i) => StoredAt(i)]_vars

\* ------------------------------------------------------------------------
\* Keys of one occurrence of a section
\* ------------------------------------------------------------------------
\* the coming iteration handles a key/value line with a key, under an open section
AtKeyValue == /\ AtScannedLine
              /\ ~IsSectionLine(CurrentLine)
              /\ Truthy(currentSection)
              /\ KeyValueSep(CurrentLine) # 0
              /\ KeyOf(CurrentLine) # <<>>

\* the keys of an object
KeySet(o) == {o[i].k : i \in 1..Len(o)}

\* C21 (as claimed): the iteration of a key/value line stores the inferred
\* value under the trimmed key, over any earlier value of that key, and
\* leaves the other keys as they are; it records nothing but the diagnostic
\* of a failing parameter rule, which does not prevent or alter the stored
\* value; after the scan each key of the last occurrence of a section holds
\* the inferred value of its last key/value line.
C21_Claim ==
    [][/\ (AtKeyValue /\ pc' = "scan") =>
             LET key == KeyOf(CurrentLine)
             IN /\ KeySet(currentSectionData') = KeySet(currentSectionData) \cup {key}
                /\ Inferred(ValueOf(CurrentLine), ObjGet(currentSectionData', key))
                /\ \A k \in KeySet(currentSectionData) \ {key} :
                      ObjGet(currentSectionData', k) = ObjGet(currentSectionData, k)
                /\ \/ errors' = errors
                   \/ /\ validateSyntax
                      /\ StepDiagnoses(1)
                      /\ errors'[Len(errors')].msg \in ParameterMessages
       /\ (pc = "done" /\ Plain) =>
             \A i \in KvIdx : (Effective(i) /\ ObjHas(config, NameAt(OwnerOf(i))))
                 => /\ ObjHas(ObjGet(config, NameAt(OwnerOf(i))), KeyOf(PhysLines[i]))
                    /\ Inferred(ValueOf(PhysLines[i]), ValueAt(i))]_vars

\* ------------------------------------------------------------------------
\* Lines consumed by a continuation
\* ------------------------------------------------------------------------
\* the physical line n is the line right after a processed continuation line:
\* line n - 1 is not consumed itself, is neither blank nor a comment, and ends
\* with a backslash
RECURSIVE Consumed(_)
Consumed(n) == /\ n > 1
               /\ ~Consumed(n - 1)
               /\ Scanned(n - 1)
               /\ HasContinuation(PhysLines[n - 1])

\* C22: the iteration of the line right after a processed continuation line
\* changes nothing (no section, no key, no diagnostic, no further line
\* consumed), whatever that line holds; every other line, the one after a
\* consumed line included, reaches the scanner as it stands in the input.
C22_ConsumesOne ==
    [][(pc = "scan" /\ pc' = "scan" /\ lineNumber < Len(lines)) =>
          IF Consumed(lineNumber + 1)
          THEN /\ lineNumber' = lineNumber + 1
               /\ UNCHANGED <<config, currentSection, currentSectionData, errors, lines>>
          ELSE lines[lineNumber + 1] = PhysLines[lineNumber + 1]]_vars

\* `[s]`, `k: v\` and `[a]` have been parsed: the header [a] was consumed and
\* opened no section
C22_Witness ==
    /\ pc = "done"
    /\ PhysLines = <<Line.S, Line.KVC, Line.A>>
    /\ config = <<[k |-> <<"s">>,
                   v |-> <<[k |-> <<"k">>, v |-> StrV(<<"v"," ","[","a","]">>)]>>]>>
    /\ errors = <<>>

\* ------------------------------------------------------------------------
\* Comment and blank lines
\* ------------------------------------------------------------------------
\* the first character of the line that is not white space is `#`
CommentLine(l) == LET idx == {i \in 1..Len(l) : ~IsWS(l[i])}
                  IN idx # {} /\ l[Min(idx)] = "#"

\* the line is empty or holds white space only
BlankLine(l) == \A i \in 1..Len(l) : IsWS(l[i])

\* C23: the iteration of a comment line or a blank line changes nothing but
\* the line counter: the open section, its parameters, the document and the
\* diagnostics stay, and no line is consumed, also when the comment line
\* ends with a backslash.
C23_SkipsUnchanged ==
    [][(/\ pc = "scan" /\ pc' = "scan" /\ lineNumber < Len(lines)
        /\ CommentLine(lines[lineNumber + 1]) \/ BlankLine(lines[lineNumber + 1])) =>
          /\ lineNumber' = lineNumber + 1
          /\ UNCHANGED <<config, currentSection, currentSectionData, errors, lines>>]_vars

\* `[s]`, ` #c \` and `[a]` have been parsed: the header after the comment
\* opened its section
C23_Witness ==
    /\ pc = "done"
    /\ PhysLines = <<Line.S, Line.CMTBS, Line.A>>
    /\ config = <<[k |-> <<"s">>, v |-> <<>>], [k |-> <<"a">>, v |-> <<>>]>>
    /\ errors = <<>>

\* ------------------------------------------------------------------------
\* Tool calls: error codes and remote failures
\* ------------------------------------------------------------------------
\* the argument is a string that is empty or holds white space only
BlankArg(x) == ~x.isNull /\ BlankLine(x.s)

FailsWith(code) == reply.kind = "error" /\ reply.error.code = code

\* C24: a call of a tool the server does not have fails with the code
\* MethodNotFound, and a get_config_file, parse_config or get_config_section
\* call with an empty or white-space filename (for get_config_section also
\* section name) fails with the code InvalidParams, the codes raised in the
\* handlers.
C24_Claim ==
    tpc = "replied" =>
       /\ request.name \notin ToolNames => FailsWith("MethodNotFound")
       /\ (request.name \in ConfigTools /\ BlankArg(request.args.filename))
             => FailsWith("InvalidParams")
       /\ (request.name = "get_config_section" /\ BlankArg(request.args.sectionName))
             => FailsWith("InvalidParams")

\* the request of the handler failed, or its body was not of the right shape
RemoteFailure == remote.k \in {"code", "status"} \/ (remote.k = "ok" /\ remote.data = Malformed)

\* the sections of the file the remote served
FetchedConfig == parseConfig(remote.data.s, TRUE).config

\* C25: get_printer_status and get_system_info always complete with a text,
\* an error text when the remote failed; get_config_file, list_config_files,
\* parse_config and get_config_section fail the call when the remote failed;
\* get_config_section for a section that is not in the fetched file completes
\* with the `not found` text that lists the sections of the file.
C25_Claim ==
    (tpc = "replied" /\ remote.k # "none") =>
       /\ request.name \in {"get_printer_status", "get_system_info"} =>
             /\ reply.kind = "result"
             /\ RemoteFailure =>
                   reply.head \in {"Printer Status Error", "System Information Error"}
       /\ (request.name \in ConfigTools \cup {"list_config_files"} /\ RemoteFailure) =>
             reply.kind = "error"
       /\ (/\ request.name = "get_config_section"
           /\ remote.k = "ok"
           /\ ~ObjHas(FetchedConfig, request.args.sectionName.s)) =>
             /\ reply.kind = "result"
             /\ reply.head = "Section not found"
             /\ reply.detail = join(ObjKeys(FetchedConfig), <<",", " ">>)

====
